---- MODULE Spec2Model ----
(***************************************************************************)
(* Funfull ROLLER middleware (src/app.py): the token cache and the         *)
(* multi-style client-credentials negotiation, the catalog cache, the      *)
(* availability cache and the request handlers that use them.              *)
(*                                                                         *)
(* One action is one inbound request handled from its first line to its   *)
(* response.  The token endpoint and the upstream API are the environment: *)
(* what they answer to the requests of one handler run is an input of the  *)
(* action.  Requests are handled one at a time: `last` is the response of *)
(* the request being answered together with the outbound requests its      *)
(* handler sent, in order, and is cleared when the response is delivered.  *)
(***************************************************************************)
EXTENDS Integers, Sequences, FiniteSets, TLC

VARIABLES
    cfg,            \* the module-level configuration read from the environment
    now,            \* time.time()
    token_cache,    \* _token_cache
    catalog_cache,  \* _catalog_cache
    avail_cache,    \* the lru_cache of _availability_cached
    last,           \* the response of the last handled request
    threads,        \* the threadpool workers inside _bearer or _get_catalog
    history         \* what upstream has answered so far (for the properties)

vars == <<cfg, now, token_cache, catalog_cache, avail_cache, last, threads, history>>

conc == <<threads, history>>

caches == <<token_cache, catalog_cache, avail_cache>>

(***************************************************************************)
(* Python values                                                           *)
(***************************************************************************)
\* Python's None among strings (f"Bearer {None}" prints it as "None").
None == "None"

\* Truthiness of an Optional[str]: None and "" are falsy.
Truthy(s) == s # None /\ s # ""

(***************************************************************************)
(* Bounds and program constants                                            *)
(***************************************************************************)
\* time.time() when the process starts; the caches' zero stamps lie far before it.
Epoch == 100000

\* The latest instant, counted from Epoch, at which a request is issued.
MaxTime == 3540

\* The safety margin of the token cache.
SAFETY_MARGIN == 60

\* expires_in when the token response has none.
DEFAULT_EXPIRES_IN == 3600

CATALOG_TTL == 600

AVAIL_TTL == 300

\* The instants at which requests are issued: around the token cache's
\* boundary (expiry - 60), the catalog TTL and the availability bucket.
Offsets == {0, 60, 600, 3540}

Instants == {Epoch + d : d \in {o \in Offsets \cup {MaxTime} : o <= MaxTime}}

(***************************************************************************)
(* Configuration                                                           *)
(***************************************************************************)
Styles == {"basic", "body", "json"}

Creds == [TOKEN_URL : {"", "https://auth/token"},
          CLIENT_ID : {"", "cid"},
          CLIENT_SEC : {"", "csec"}]

AllCreds == [TOKEN_URL |-> "https://auth/token", CLIENT_ID |-> "cid", CLIENT_SEC |-> "csec"]

MkConfig(mw, auth, creds, style, apikey) ==
    [MW_API_KEY |-> mw, AUTH_TYPE |-> auth,
     TOKEN_URL |-> creds.TOKEN_URL, CLIENT_ID |-> creds.CLIENT_ID,
     CLIENT_SEC |-> creds.CLIENT_SEC,
     API_KEY |-> apikey, ROLLER_TOKEN_STYLE |-> style,
     CATALOG_NAME_FILTER |-> <<>>]

\* The deployments explored: bearer mode with complete credentials under each
\* preferred style and, under the default style, without a shared secret;
\* bearer mode with one or more credentials missing; and static-key mode with
\* and without the key, with and without a shared secret.
Configs ==
    {MkConfig("mw-secret", "oauth", AllCreds, st, "") : st \in Styles}
    \cup {MkConfig("", "oauth", AllCreds, "basic", "")}
    \cup {MkConfig("mw-secret", "oauth", c, "basic", "") : c \in Creds \ {AllCreds}}
    \cup {MkConfig(mw, "key", AllCreds, "basic", k) :
            mw \in {"", "mw-secret"}, k \in {"", "roller-key"}}

\* The X-API-Key header of an inbound request (None: no header).
XKeys == {None, "mw-secret", "wrong"}

(***************************************************************************)
(* The environment: the token endpoint                                     *)
(***************************************************************************)
\* The JSON body of a 200 token response.  expires_in is a set: empty when
\* the field is absent.  access_token None: the field is absent.
Payloads ==
    {[access_token |-> "tokA", expires_in |-> {120}],
     [access_token |-> "tokB", expires_in |-> {}],
     [access_token |-> None, expires_in |-> {120}]}

NoPayload == [access_token |-> None, expires_in |-> {}]

\* What the token endpoint does during one handler run: for each style, an
\* HTTP 200, an HTTP 401, an HTTP 500 or no answer at all (a timeout, a
\* refused connection), and the body of its 200 answers.
TokenOutcomes == {"200", "401", "500", "neterr"}

EndpointsOver(outcomes) ==
    {[outcome |-> o, payload |-> p] :
        o \in {f \in [Styles -> outcomes] : \E s \in Styles : f[s] = "200"}, p \in Payloads}
    \cup {[outcome |-> o, payload |-> NoPayload] :
            o \in {f \in [Styles -> outcomes] : \A s \in Styles : f[s] # "200"}}

Endpoints == EndpointsOver(TokenOutcomes)

\* _bearer treats every non-200 status alike.
BearerEndpoints == EndpointsOver({"200", "401", "neterr"})

NoEndpoint == [outcome |-> [s \in Styles |-> "neterr"], payload |-> NoPayload]

\* The styles the endpoint answers 200 to.
Accepts(ep) == {s \in Styles : ep.outcome[s] = "200"}

NetErr(style) == [kind |-> "neterr", status |-> 0, json |-> NoPayload,
                  text |-> <<"connection error", style>>]

\* The answer to one token request of the given style.  With TOKEN_URL empty
\* requests.post raises MissingSchema, a RequestException, before sending.
TokenResponse(ep, style) ==
    IF cfg.TOKEN_URL = "" \/ ep.outcome[style] = "neterr"
    THEN NetErr(style)
    ELSE IF ep.outcome[style] = "200"
    THEN [kind |-> "http", status |-> 200, json |-> ep.payload,
          text |-> <<"token json", style>>]
    ELSE [kind |-> "http", status |-> IF ep.outcome[style] = "500" THEN 500 ELSE 401,
          json |-> NoPayload, text |-> <<"rejected", style>>]

(***************************************************************************)
(* _bearer and _headers                                                    *)
(***************************************************************************)
\* The detail of an HTTPException or the text of an escaping exception: the
\* message and the upstream text it quotes.
NoText == <<"", "">>

Detail(msg, text) == [msg |-> msg, text |-> text]

NoDetail == Detail("", NoText)

\* Outbound request tags, recorded in the order sent.
TokenReq(style) == <<"token", style>>

ApiReq(path) == <<"api", path>>

\* An order that sends the preferred style a second time before falling back.
FallbackOrderRetry(style) ==
    IF style = "json" THEN <<"json", "json", "body", "basic">>
    ELSE IF style = "body" THEN <<"body", "body", "json">>
    ELSE <<"basic", "basic", "json">>

\* The styles _bearer sends, in order, for a preferred style: the "json"
\* branch falls back to body and then basic, the "body" and "basic" branches
\* fall back to json only.
FallbackOrder(style) ==
    IF style = "json" THEN <<"json", "body", "basic">>
    ELSE IF style = "body" THEN <<"body", "json">>
    ELSE <<"basic", "json">>

\* A negotiation that keeps the first response instead of the last one when
\* every style is rejected.
RECURSIVE NegotiateKeepsFirst(_, _, _, _)
NegotiateKeepsFirst(ep, order, i, sent) ==
    LET r == TokenResponse(ep, order[i])
        sent2 == Append(sent, TokenReq(order[i]))
    IN  IF r.kind = "neterr" THEN [raised |-> TRUE, r |-> r, sent |-> sent2]
        ELSE IF r.status = 200 THEN [raised |-> FALSE, r |-> r, sent |-> sent2]
        ELSE IF i = Len(order)
        THEN [raised |-> FALSE, r |-> TokenResponse(ep, order[1]), sent |-> sent2]
        ELSE NegotiateKeepsFirst(ep, order, i + 1, sent2)

\* The chain of requests.post calls of _bearer from position i of the order:
\* a request that raises ends the chain with the exception (nothing in
\* _bearer catches it); a 200 or the last style's answer ends it with r.
RECURSIVE Negotiate(_, _, _, _)
Negotiate(ep, order, i, sent) ==
    LET r == TokenResponse(ep, order[i])
        sent2 == Append(sent, TokenReq(order[i]))
    IN  IF r.kind = "neterr" THEN [raised |-> TRUE, r |-> r, sent |-> sent2]
        ELSE IF r.status = 200 \/ i = Len(order)
        THEN [raised |-> FALSE, r |-> r, sent |-> sent2]
        ELSE Negotiate(ep, order, i + 1, sent2)

\* A freshness test that forgets the safety margin.
TokenFreshNoMargin == Truthy(token_cache.token) /\ token_cache.exp > now

\* _token_cache["token"] and _token_cache["exp"] - 60 > now
TokenFresh == Truthy(token_cache.token) /\ token_cache.exp - SAFETY_MARGIN > now

\* A credentials test satisfied by any one of the three.
CredsAnyPresent == cfg.TOKEN_URL # "" \/ cfg.CLIENT_ID # "" \/ cfg.CLIENT_SEC # ""

\* TOKEN_URL and CLIENT_ID and CLIENT_SEC
CredsPresent == cfg.TOKEN_URL # "" /\ cfg.CLIENT_ID # "" /\ cfg.CLIENT_SEC # ""

\* int(data.get("expires_in", 3600))
ExpiresIn(json) ==
    IF json.expires_in = {} THEN DEFAULT_EXPIRES_IN ELSE CHOOSE e \in json.expires_in : TRUE

\* The cache entry written from a 200 token response.
StoredToken(json) == [token |-> json.access_token, exp |-> now + ExpiresIn(json)]

\* A _bearer that forgets the cached token when every style is rejected.
bearer_forgets_on_failure(ep) ==
    LET base == [kind |-> "return", status |-> 0, detail |-> NoDetail, token |-> None,
                 cache |-> token_cache, sent |-> <<>>, how |-> "skipped"]
    IN  IF cfg.AUTH_TYPE = "key" THEN base
        ELSE IF TokenFresh
        THEN [base EXCEPT !.token = token_cache.token, !.how = "cached"]
        ELSE IF ~CredsPresent
        THEN [base EXCEPT !.kind = "http", !.status = 500,
                          !.detail = Detail("OAuth configured but TOKEN_URL/CLIENT_ID/CLIENT_SECRET missing", NoText),
                          !.how = "config_error"]
        ELSE LET n == Negotiate(ep, FallbackOrder(cfg.ROLLER_TOKEN_STYLE), 1, <<>>)
             IN  IF n.raised
                 THEN [base EXCEPT !.kind = "exc", !.detail = Detail("RequestException", n.r.text),
                                   !.sent = n.sent, !.how = "network_error"]
                 ELSE IF n.r.status # 200
                 THEN [base EXCEPT !.kind = "http", !.status = 502,
                                   !.detail = Detail("Auth failed", n.r.text),
                                   !.cache = [token |-> None, exp |-> now],
                                   !.sent = n.sent, !.how = "auth_failed"]
                 ELSE [base EXCEPT !.token = n.r.json.access_token,
                                   !.cache = StoredToken(n.r.json),
                                   !.sent = n.sent, !.how = "negotiated"]

\* _bearer(): kind "return" (token is the value returned), "http" (an
\* HTTPException of the given status) or "exc" (another exception escapes);
\* cache is _token_cache afterwards; how tells the path taken.
bearer(ep) ==
    LET base == [kind |-> "return", status |-> 0, detail |-> NoDetail, token |-> None,
                 cache |-> token_cache, sent |-> <<>>, how |-> "skipped"]
    IN  IF cfg.AUTH_TYPE = "key" THEN base
        ELSE IF TokenFresh
        THEN [base EXCEPT !.token = token_cache.token, !.how = "cached"]
        ELSE IF ~CredsPresent
        THEN [base EXCEPT !.kind = "http", !.status = 500,
                          !.detail = Detail("OAuth configured but TOKEN_URL/CLIENT_ID/CLIENT_SECRET missing", NoText),
                          !.how = "config_error"]
        ELSE LET n == Negotiate(ep, FallbackOrder(cfg.ROLLER_TOKEN_STYLE), 1, <<>>)
             IN  IF n.raised
                 THEN [base EXCEPT !.kind = "exc", !.detail = Detail("RequestException", n.r.text),
                                   !.sent = n.sent, !.how = "network_error"]
                 ELSE IF n.r.status # 200
                 THEN [base EXCEPT !.kind = "http", !.status = 502,
                                   !.detail = Detail("Auth failed", n.r.text),
                                   !.sent = n.sent, !.how = "auth_failed"]
                 ELSE [base EXCEPT !.token = n.r.json.access_token,
                                   !.cache = StoredToken(n.r.json),
                                   !.sent = n.sent, !.how = "negotiated"]

NoAuth == <<"none", None>>

\* A header builder without the static-key branch.
headersBearerOnly(ep) ==
    LET b == bearer(ep)
    IN  [kind |-> b.kind, status |-> b.status, detail |-> b.detail,
         auth |-> IF b.kind = "return" THEN <<"Bearer", b.token>> ELSE NoAuth,
         cache |-> b.cache, sent |-> b.sent, how |-> b.how]

\* _headers(): the outbound auth header (auth), or the exception of _bearer
\* or of the missing static key.
headers(ep) ==
    IF cfg.AUTH_TYPE = "key"
    THEN IF cfg.API_KEY = ""
         THEN [kind |-> "http", status |-> 500, detail |-> Detail("ROLLER_API_KEY missing for key auth", NoText),
               auth |-> NoAuth, cache |-> token_cache, sent |-> <<>>, how |-> "skipped"]
         ELSE [kind |-> "return", status |-> 0, detail |-> NoDetail,
               auth |-> <<"x-api-key", cfg.API_KEY>>, cache |-> token_cache,
               sent |-> <<>>, how |-> "skipped"]
    ELSE LET b == bearer(ep)
         IN  [kind |-> b.kind, status |-> b.status, detail |-> b.detail,
              auth |-> IF b.kind = "return" THEN <<"Bearer", b.token>> ELSE NoAuth,
              cache |-> b.cache, sent |-> b.sent, how |-> b.how]

\* The token endpoints a handler run may meet: only a run that negotiates
\* sends it anything.
EndpointsNow ==
    IF cfg.AUTH_TYPE # "key" /\ ~TokenFresh /\ CredsPresent THEN BearerEndpoints
    ELSE {NoEndpoint}

(***************************************************************************)
(* The catalog cache                                                       *)
(***************************************************************************)
\* Product names, queries, dates and times are sequences of characters.
\* str.lower() on the characters the model uses.
LowerCh(ch) ==
    CASE ch = "A" -> "a" [] ch = "B" -> "b" [] ch = "C" -> "c" [] ch = "J" -> "j"
      [] ch = "P" -> "p" [] ch = "R" -> "r" [] ch = "T" -> "t"
      [] OTHER -> ch

Lower(s) == [i \in 1..Len(s) |-> LowerCh(s[i])]

\* Code points, for comparing strings.
CharOrder == <<" ", "!", "-", "0", "1", "2", "A", "B", "C", "J", "P", "R", "T",
               "a", "b", "c", "d", "e", "f", "i", "j", "k", "m", "o", "p", "r", "t", "u", "y">>

Ord(ch) == CHOOSE i \in 1..Len(CharOrder) : CharOrder[i] = ch

\* s < t for Python strings.
RECURSIVE StrLess(_, _)
StrLess(s, t) ==
    IF t = <<>> THEN FALSE
    ELSE IF s = <<>> THEN TRUE
    ELSE IF Ord(Head(s)) # Ord(Head(t)) THEN Ord(Head(s)) < Ord(Head(t))
    ELSE StrLess(Tail(s), Tail(t))

\* An upstream product record; an absent string field is None (ids) or the
\* empty string (names), an absent number 0, an absent list <<>>.
RawProduct(ppid, id, pname, name, title, duration, rtypes, rtype) ==
    [parentProductId |-> ppid, id |-> id, productId |-> None, code |-> None,
     parentProductName |-> pname, name |-> name, title |-> title,
     duration |-> duration, durationMinutes |-> 0,
     resourceTypes |-> rtypes, resourceType |-> rtype]

RawJump == RawProduct(None, "p1", <<>>, <<"J", "u", "m", "p">>, <<>>, 90, <<"room">>, None)

RawBday == RawProduct("pp2", "p2", <<"B", "d", "a", "y">>, <<"k", "i", "d">>, <<>>, 0, <<>>, "table")

RawNoId == RawProduct(None, None, <<>>, <<"C", "a", "f", "e">>, <<>>, 60, <<>>, None)

RawNoName == RawProduct(None, "p4", <<>>, <<>>, <<>>, 60, <<>>, None)

\* The bodies of a 200 products response.
RawCatalogs == {<<RawNoId, RawNoName>>, <<RawJump, RawNoId, RawBday>>}

\* a or b for Optional[str]
OrStr(a, b) == IF Truthy(a) THEN a ELSE b

\* a or b for sequences (names, lists)
OrSeq(a, b) == IF a # <<>> THEN a ELSE b

\* a or b for numbers
OrNum(a, b) == IF a # 0 THEN a ELSE b

ProductPid(p) == OrStr(p.parentProductId, OrStr(p.id, OrStr(p.productId, p.code)))

ProductName(p) == OrSeq(p.parentProductName, OrSeq(p.name, p.title))

ProductDuration(p) == OrNum(p.duration, OrNum(p.durationMinutes, 120))

ProductResTypes(p) ==
    IF p.resourceTypes # <<>> THEN p.resourceTypes
    ELSE IF Truthy(p.resourceType) THEN <<p.resourceType>>
    ELSE <<>>

\* CATALOG_NAME_FILTER in name.lower()
RECURSIVE Contains(_, _)
Contains(s, sub) ==
    IF Len(sub) > Len(s) THEN FALSE
    ELSE IF SubSeq(s, 1, Len(sub)) = sub THEN TRUE
    ELSE Contains(Tail(s), sub)

\* A loop that keeps records whatever the configured name filter.
KeepsWithoutFilter(p) ==
    /\ Truthy(ProductPid(p))
    /\ ProductName(p) # <<>>

\* Whether the loop of _fetch_catalog_from_roller keeps the record.
Keeps(p) ==
    /\ Truthy(ProductPid(p))
    /\ ProductName(p) # <<>>
    /\ cfg.CATALOG_NAME_FILTER = <<>> \/ Contains(Lower(ProductName(p)), cfg.CATALOG_NAME_FILTER)

CatalogItem(p) ==
    [productId |-> ProductPid(p), name |-> ProductName(p),
     durationMinutes |-> ProductDuration(p), resourceTypes |-> ProductResTypes(p)]

\* The loop of _fetch_catalog_from_roller over the upstream records.
RECURSIVE NormalizeCatalog(_)
NormalizeCatalog(data) ==
    IF data = <<>> THEN <<>>
    ELSE IF Keeps(Head(data))
    THEN <<CatalogItem(Head(data))>> \o NormalizeCatalog(Tail(data))
    ELSE NormalizeCatalog(Tail(data))

\* What the upstream API does with the one request of a handler run.
UpOk(data) == [kind |-> "http", status |-> 200, data |-> data, text |-> <<"upstream", "ok">>]

UpCreated(data) == [kind |-> "http", status |-> 201, data |-> data,
                   text |-> <<"upstream", "created">>]

UpFail(status) == [kind |-> "http", status |-> status, data |-> <<>>,
                   text |-> <<"upstream", "error">>]

UpNetErr == [kind |-> "neterr", status |-> 0, data |-> <<>>, text |-> <<"upstream", "timeout">>]

ProductsUpstream == {UpOk(c) : c \in RawCatalogs} \cup {UpFail(500), UpNetErr}

\* _fetch_catalog_from_roller(): _headers() first (h is what that call does;
\* it may refresh the token cache), then the GET, which nothing here guards
\* against a network error.
fetch_catalog_from_roller(h, up) ==
    LET base == [kind |-> h.kind, status |-> h.status, detail |-> h.detail, items |-> <<>>,
                 auth |-> h.auth, tcache |-> h.cache, sent |-> h.sent, how |-> h.how]
        sent2 == Append(h.sent, ApiReq("products"))
    IN  IF h.kind # "return" THEN base
        ELSE IF up.kind = "neterr"
        THEN [base EXCEPT !.kind = "exc", !.detail = Detail("RequestException", up.text),
                          !.sent = sent2]
        ELSE IF up.status # 200
        THEN [base EXCEPT !.kind = "http", !.status = 502,
                          !.detail = Detail("Catalog fetch failed", up.text), !.sent = sent2]
        ELSE [base EXCEPT !.items = NormalizeCatalog(up.data), !.sent = sent2]

\* A freshness test with the comparison the wrong way round.
CatalogFreshInverted == catalog_cache.items # <<>> /\ now - catalog_cache.at >= CATALOG_TTL

\* _catalog_cache["items"] and now - _catalog_cache["at"] < CATALOG_TTL
CatalogFresh == catalog_cache.items # <<>> /\ now - catalog_cache.at < CATALOG_TTL

\* _get_catalog(): ccache is _catalog_cache afterwards.
get_catalog(h, up) ==
    IF CatalogFresh
    THEN [kind |-> "return", status |-> 0, detail |-> NoDetail, items |-> catalog_cache.items,
          auth |-> NoAuth, tcache |-> token_cache, sent |-> <<>>, how |-> "skipped",
          ccache |-> catalog_cache, fetched |-> FALSE]
    ELSE LET f == fetch_catalog_from_roller(h, up)
             c == IF f.kind = "return" THEN [at |-> now, items |-> f.items] ELSE catalog_cache
         IN  [kind |-> f.kind, status |-> f.status, detail |-> f.detail, items |-> f.items,
              auth |-> f.auth, tcache |-> f.tcache, sent |-> f.sent, how |-> f.how,
              ccache |-> c, fetched |-> TRUE]

(***************************************************************************)
(* The catalog resolver                                                    *)
(***************************************************************************)
Digits == {"0", "1", "2", "3", "4", "5", "6", "7", "8", "9"}

Letters == {"A", "B", "C", "J", "P", "R", "T",
            "a", "b", "c", "d", "e", "f", "i", "j", "k", "m", "o", "p", "r", "t", "u", "y"}

\* ch.isalnum() or ch.isspace()
KeptByNorm(ch) == ch \in Digits \cup Letters \cup {" "}

RECURSIVE StripLeft(_)
StripLeft(s) == IF s # <<>> /\ Head(s) = " " THEN StripLeft(Tail(s)) ELSE s

RECURSIVE StripRight(_)
StripRight(s) ==
    IF s # <<>> /\ s[Len(s)] = " " THEN StripRight(SubSeq(s, 1, Len(s) - 1)) ELSE s

\* _norm(s)
norm(s) == StripRight(StripLeft(Lower(SelectSeq(s, KeptByNorm))))

\* The matching blocks (i, j, k) of a and b: a[i..i+k-1] = b[j..j+k-1], k > 0.
Blocks(a, b) ==
    {m \in (1..Len(a)) \X (1..Len(b)) \X (1..Len(a)) :
        /\ m[1] + m[3] - 1 <= Len(a)
        /\ m[2] + m[3] - 1 <= Len(b)
        /\ SubSeq(a, m[1], m[1] + m[3] - 1) = SubSeq(b, m[2], m[2] + m[3] - 1)}

\* SequenceMatcher.find_longest_match: the longest block, the earliest in a
\* among the longest, the earliest in b among those.
LongestMatch(a, b) ==
    LET bs == Blocks(a, b)
    IN  CHOOSE m \in bs :
            \A o \in bs :
                \/ o[3] < m[3]
                \/ o[3] = m[3] /\ o[1] > m[1]
                \/ o[3] = m[3] /\ o[1] = m[1] /\ o[2] >= m[2]

\* The characters SequenceMatcher.get_matching_blocks matches: the longest
\* block, then the same to its left and to its right.
RECURSIVE MatchCount(_, _)
MatchCount(a, b) ==
    IF Blocks(a, b) = {} THEN 0
    ELSE LET m == LongestMatch(a, b)
         IN  m[3]
             + MatchCount(SubSeq(a, 1, m[1] - 1), SubSeq(b, 1, m[2] - 1))
             + MatchCount(SubSeq(a, m[1] + m[3], Len(a)), SubSeq(b, m[2] + m[3], Len(b)))

\* SequenceMatcher(None, a, b).ratio() as the fraction num/den (1.0 when
\* both strings are empty).
Ratio(a, b) ==
    IF Len(a) + Len(b) = 0 THEN [num |-> 1, den |-> 1]
    ELSE [num |-> 2 * MatchCount(a, b), den |-> Len(a) + Len(b)]

\* score < 0.62
BelowThreshold(score) == score.num * 100 < 62 * score.den

\* round(score, 3), in thousandths.
Round3(score) == (2000 * score.num + score.den) \div (2 * score.den)

\* A maximum that keeps the last item of the highest score.
BestIndexLast(text, items) ==
    CHOOSE i \in 1..Len(items) :
        \A j \in 1..Len(items) :
            LET si == Ratio(text, norm(items[i].name))
                sj == Ratio(text, norm(items[j].name))
            IN  \/ sj.num * si.den < si.num * sj.den
                \/ sj.num * si.den = si.num * sj.den /\ i >= j

\* max(candidates, key=score): the first item of the highest score.
BestIndex(text, items) ==
    CHOOSE i \in 1..Len(items) :
        \A j \in 1..Len(items) :
            LET si == Ratio(text, norm(items[i].name))
                sj == Ratio(text, norm(items[j].name))
            IN  \/ sj.num * si.den < si.num * sj.den
                \/ sj.num * si.den = si.num * sj.den /\ i <= j

\* A slice that forgets the limit of ten.
WholeList(items) == items

\* items[:10]
FirstTen(items) == SubSeq(items, 1, IF Len(items) < 10 THEN Len(items) ELSE 10)

Choice(it) == [productId |-> it.productId, name |-> it.name]

NoItem == [productId |-> None, name |-> <<>>, durationMinutes |-> 0, resourceTypes |-> <<>>]

\* The body resolve_package returns for the query text and the catalog.
resolve(text, items) ==
    IF text = <<>> \/ items = <<>>
    THEN [matched |-> FALSE, choices |-> FirstTen(items), scored |-> FALSE,
          confidence |-> 0, product |-> NoItem]
    ELSE LET best == items[BestIndex(text, items)]
             score == Ratio(text, norm(best.name))
         IN  IF BelowThreshold(score)
             THEN [matched |-> FALSE,
                   choices |-> [i \in 1..Len(FirstTen(items)) |-> Choice(FirstTen(items)[i])],
                   scored |-> TRUE, confidence |-> Round3(score), product |-> NoItem]
             ELSE [matched |-> TRUE, choices |-> <<>>, scored |-> TRUE,
                   confidence |-> Round3(score), product |-> best]

\* The q parameter of GET /resolve-package.
Queries == {<<"!", " ">>, <<"J", "u", "m", "p", "!">>}

(***************************************************************************)
(* Availability                                                            *)
(***************************************************************************)
DigitVal(ch) ==
    CASE ch = "0" -> 0 [] ch = "1" -> 1 [] ch = "2" -> 2 [] ch = "3" -> 3 [] ch = "4" -> 4
      [] ch = "5" -> 5 [] ch = "6" -> 6 [] ch = "7" -> 7 [] ch = "8" -> 8 [] ch = "9" -> 9

\* int(s) for a string of digits.
RECURSIVE IntOf(_)
IntOf(s) == IF s = <<>> THEN 0 ELSE 10 * IntOf(SubSeq(s, 1, Len(s) - 1)) + DigitVal(s[Len(s)])

ColonAt(s) == CHOOSE i \in 1..Len(s) : s[i] = ":"

\* _to_minutes("13:30") = 810
to_minutes(hhmm) ==
    LET c == ColonAt(hhmm)
    IN  IntOf(SubSeq(hhmm, 1, c - 1)) * 60 + IntOf(SubSeq(hhmm, c + 1, Len(hhmm)))

\* len(date) != 10 or date[4] != "-" or date[7] != "-"  (0-based indices)
DateMalformed(date) == Len(date) # 10 \/ date[5] # "-" \/ date[8] # "-"

\* startTime and (len(startTime) != 5 or startTime[2] != ":")
StartTimeMalformed(t) == t # <<>> /\ (Len(t) # 5 \/ t[3] # ":")

GoodDate == <<"2", "0", "2", "4", "-", "0", "1", "-", "0", "5">>

ShortDate == <<"2", "0", "2", "4", "-", "1", "-", "5">>

\* Ten characters with the hyphens in place and letters for digits.
LettersDate == <<"a", "b", "c", "d", "-", "e", "f", "-", "g", "h">>

\* The date parameter of the availability endpoints (<<>>: absent).
DateInputs == {GoodDate, ShortDate, LettersDate, <<>>}

T(h1, h2, m1, m2) == <<h1, h2, ":", m1, m2>>

\* The preferredTime parameter, which the framework matches against
\* ^\d{2}:\d{2}$ before the handler runs (<<>>: absent).
PreferredTimes == {<<>>, T("1", "1", "4", "5")}

\* The startTime parameter of GET /availability (<<>>: absent).
StartTimes == {<<>>, <<"9", ":", "0", "0">>}

\* An upstream availability product: its sessions by start time, and the
\* two fields product_availability attaches (<<>>: not attached).
Product(starts) == [sessions |-> starts, preferred |-> <<>>, neighborSessions |-> <<>>]

AvailData ==
    {<<Product(<<T("1", "2", "0", "0"), T("0", "9", "0", "0"),
                 T("1", "4", "0", "0"), T("1", "0", "3", "0")>>)>>}

AvailUpstream == {UpOk(d) : d \in AvailData} \cup {UpFail(500), UpNetErr}

\* list.sort(key=_to_minutes): a stable sort by start time.
RECURSIVE InsertSession(_, _)
InsertSession(sorted, x) ==
    IF sorted = <<>> THEN <<x>>
    ELSE IF to_minutes(x) < to_minutes(Head(sorted)) THEN <<x>> \o sorted
    ELSE <<Head(sorted)>> \o InsertSession(Tail(sorted), x)

RECURSIVE SortSessions(_)
SortSessions(ss) ==
    IF ss = <<>> THEN <<>>
    ELSE InsertSession(SortSessions(SubSeq(ss, 1, Len(ss) - 1)), ss[Len(ss)])

Abs(x) == IF x < 0 THEN -x ELSE x

\* min(range(len(starts)), key=lambda i: abs(starts[i] - pt)): the first
\* index of the least distance.
NearestIndex(sessions, pt) ==
    CHOOSE i \in 1..Len(sessions) :
        \A j \in 1..Len(sessions) :
            LET di == Abs(to_minutes(sessions[i]) - pt)
                dj == Abs(to_minutes(sessions[j]) - pt)
            IN  di < dj \/ (di = dj /\ i <= j)

\* The session before the nearest, the nearest, the session after it.
Neighbors(sessions, idx) ==
    (IF idx - 1 >= 1 THEN <<sessions[idx - 1]>> ELSE <<>>)
    \o <<sessions[idx]>>
    \o (IF idx + 1 <= Len(sessions) THEN <<sessions[idx + 1]>> ELSE <<>>)

\* The body of the loop of product_availability for one product: it sorts
\* the product's own session list and attaches the two fields to it.
WithNeighbors(prod, preferredTime) ==
    IF prod.sessions = <<>> THEN prod
    ELSE LET sorted == SortSessions(prod.sessions)
         IN  [sessions |-> sorted, preferred |-> preferredTime,
              neighborSessions |-> Neighbors(sorted, NearestIndex(sorted, to_minutes(preferredTime)))]

\* bucket = int(time.time() // AVAIL_TTL)
Bucket == now \div AVAIL_TTL

\* The entry of the lru_cache for one date (no product filters): the bucket
\* it was fetched in and the object it holds.  Entries of earlier buckets stay
\* in the real cache and are never hit again while time moves forward.
NoEntry == [present |-> FALSE, bucket |-> 0, data |-> <<>>]

AvailHit(date) == avail_cache[date].present /\ avail_cache[date].bucket = Bucket

\* The first line of _availability_cached reads the module global
\* AVAILABILITY_PATH; the module binds _PATH and never AVAILABILITY_PATH, so
\* the read raises NameError.
AvailabilityPathBound == FALSE

\* _availability_fetch(date, None, None): a hit returns the cached object
\* without building headers; a miss runs _availability_cached (h is what its
\* _headers() call does), whose result is cached only when it returns.
availability_fetch(date, h, up) ==
    IF AvailHit(date)
    THEN [kind |-> "return", status |-> 0, detail |-> NoDetail, data |-> avail_cache[date].data,
          auth |-> NoAuth, tcache |-> token_cache, sent |-> <<>>, how |-> "skipped"]
    ELSE IF ~AvailabilityPathBound
    THEN [kind |-> "exc", status |-> 0, detail |-> Detail("NameError", <<"AVAILABILITY_PATH", "">>),
          data |-> <<>>, auth |-> NoAuth, tcache |-> token_cache, sent |-> <<>>,
          how |-> "skipped"]
    ELSE LET base == [kind |-> h.kind, status |-> h.status, detail |-> h.detail, data |-> <<>>,
                      auth |-> h.auth, tcache |-> h.cache, sent |-> h.sent, how |-> h.how]
             sent2 == Append(h.sent, ApiReq("product-availability"))
         IN  IF h.kind # "return" THEN base
             ELSE IF up.kind = "neterr"
             THEN [base EXCEPT !.kind = "exc", !.detail = Detail("RequestException", up.text),
                               !.sent = sent2]
             ELSE IF up.status # 200
             THEN [base EXCEPT !.kind = "http", !.status = 502,
                               !.detail = Detail("Availability fetch failed", up.text),
                               !.sent = sent2]
             ELSE [base EXCEPT !.data = up.data, !.sent = sent2]

(***************************************************************************)
(* Request handlers                                                        *)
(***************************************************************************)
\* A shared-secret check that lets a request without the header through.
require_mw_key_lenient(xkey) ==
    cfg.MW_API_KEY = "" \/ xkey = None \/ xkey = cfg.MW_API_KEY

\* _require_mw_key passes (it returns) or raises the 401.
require_mw_key(xkey) == cfg.MW_API_KEY = "" \/ xkey = cfg.MW_API_KEY

NoRes == [matched |-> FALSE, choices |-> <<>>, scored |-> FALSE, confidence |-> 0,
          product |-> NoItem]

\* The body of a 200 response: items is what _get_catalog returned, listing
\* the sorted items of /catalog, res the result of /resolve-package, data the
\* availability data, report the report of /debug/oauth.
NoBody == [items |-> <<>>, listing |-> <<>>, res |-> NoRes, data |-> <<>>,
           report |-> [status_code |-> 0, text |-> NoText]]

\* The parameters of a request that the handlers read: q, the date (Date or
\* date), the time (startTime or preferredTime) and, for the webhook, whether
\* the body parses as JSON ("none": the endpoint reads no body).
NoInput == [q |-> <<>>, date |-> <<>>, time |-> <<>>, json |-> "none"]

\* No products request was answered.
NoUpstream == [kind |-> "none", status |-> 0, data |-> <<>>, text |-> NoText]

NoCall == [op |-> "none", xkey |-> None, input |-> NoInput, upstream |-> NoUpstream,
           status |-> 0, unhandled |-> FALSE,
           detail |-> NoDetail, how |-> "skipped", sent |-> <<>>, accepts |-> {},
           auth |-> NoAuth, body |-> NoBody]

\* No request is being handled.
Idle == last = NoCall

\* The response to a request whose handler ran the call c (of _headers,
\* _get_catalog, ...): what c returned, its HTTPException, or the 500 the
\* framework answers when another exception escapes the handler.
Response(op, xkey, c, ep, body) ==
    [op |-> op, xkey |-> xkey, input |-> NoInput, upstream |-> NoUpstream,
     status |-> IF c.kind = "return" THEN 200 ELSE IF c.kind = "http" THEN c.status ELSE 500,
     unhandled |-> c.kind = "exc",
     detail |-> c.detail, how |-> c.how, sent |-> c.sent,
     accepts |-> IF c.how \in {"negotiated", "auth_failed", "network_error"}
                 THEN Accepts(ep) ELSE {},
     auth |-> c.auth,
     body |-> IF c.kind = "return" THEN body ELSE NoBody]

Unauthorized(op, xkey) ==
    [NoCall EXCEPT !.op = op, !.xkey = xkey, !.status = 401,
                   !.detail = Detail("Unauthorized: bad X-API-Key", NoText)]

Invalid(op, xkey, msg) ==
    [NoCall EXCEPT !.op = op, !.xkey = xkey, !.status = 422, !.detail = Detail(msg, NoText)]

\* The response r to a request with the parameters inp.
WithInput(r, inp) == [r EXCEPT !.input = inp]

\* The response r of a run whose GET of the products, if it sent one, was
\* answered with up.
WithUpstream(r, up) ==
    [r EXCEPT !.upstream = IF ApiReq("products") \in {r.sent[i] : i \in 1..Len(r.sent)}
                           THEN up ELSE NoUpstream]

\* The upstream answers a run may meet: only a run that gets as far as the
\* request sees one.
UpstreamNow(reaches, answers) == IF reaches THEN answers ELSE {UpNetErr}

\* sorted(items, key=lambda x: x["name"].lower()): a stable sort.
RECURSIVE InsertItem(_, _)
InsertItem(sorted, x) ==
    IF sorted = <<>> THEN <<x>>
    ELSE IF StrLess(Lower(x.name), Lower(Head(sorted).name)) THEN <<x>> \o sorted
    ELSE <<Head(sorted)>> \o InsertItem(Tail(sorted), x)

RECURSIVE SortItems(_)
SortItems(items) ==
    IF items = <<>> THEN <<>>
    ELSE InsertItem(SortItems(SubSeq(items, 1, Len(items) - 1)), items[Len(items)])

\* GET /catalog with the answer to the products request drawn from ups.
list_catalog_over(ups) ==
    /\ Idle
    /\ \E xkey \in XKeys :
        IF ~require_mw_key(xkey)
        THEN last' = Unauthorized("catalog", xkey) /\ UNCHANGED <<cfg, conc, now, caches>>
        ELSE \E ep \in IF CatalogFresh THEN {NoEndpoint} ELSE EndpointsNow :
             LET h == headers(ep) IN
             \E up \in UpstreamNow(~CatalogFresh /\ h.kind = "return", ups) :
                LET g == get_catalog(h, up)
                IN  /\ last' = WithUpstream(Response("catalog", xkey, g, ep,
                                        [NoBody EXCEPT !.items = g.items,
                                                       !.listing = SortItems(g.items)]), up)
                    /\ token_cache' = g.tcache
                    /\ catalog_cache' = g.ccache
                    /\ UNCHANGED <<cfg, conc, now, avail_cache>>

\* GET /catalog
list_catalog == list_catalog_over(ProductsUpstream)

\* GET /resolve-package with q drawn from qs.
resolve_package_over(qs) ==
    /\ Idle
    /\ \E xkey \in XKeys, q \in qs :
        IF ~require_mw_key(xkey)
        THEN /\ last' = WithInput(Unauthorized("resolve-package", xkey), [NoInput EXCEPT !.q = q])
             /\ UNCHANGED <<cfg, conc, now, caches>>
        ELSE \E ep \in IF CatalogFresh THEN {NoEndpoint} ELSE EndpointsNow :
             LET h == headers(ep) IN
             \E up \in UpstreamNow(~CatalogFresh /\ h.kind = "return", ProductsUpstream) :
                LET g == get_catalog(h, up)
                IN  /\ last' = WithInput(Response("resolve-package", xkey, g, ep,
                                        [NoBody EXCEPT !.items = g.items,
                                                       !.res = resolve(norm(q), g.items)]),
                                        [NoInput EXCEPT !.q = q])
                    /\ token_cache' = g.tcache
                    /\ catalog_cache' = g.ccache
                    /\ UNCHANGED <<cfg, conc, now, avail_cache>>

\* GET /resolve-package
resolve_package == resolve_package_over(Queries)

\* requests.post(url, headers=_headers(...), ...) (h is what _headers() does) inside
\* try/except requests.RequestException, then the status check: a
\* RequestException of the request or of _bearer becomes a 502, an
\* HTTPException of _headers passes through.
guarded_post(path, ok, h, up) ==
    LET base == [kind |-> h.kind, status |-> h.status, detail |-> h.detail,
                 auth |-> h.auth, tcache |-> h.cache, sent |-> h.sent, how |-> h.how]
        sent2 == Append(h.sent, ApiReq(path))
    IN  IF h.kind = "exc"
        THEN [base EXCEPT !.kind = "http", !.status = 502,
                          !.detail = Detail("ROLLER error", h.detail.text)]
        ELSE IF h.kind = "http" THEN base
        ELSE IF up.kind = "neterr"
        THEN [base EXCEPT !.kind = "http", !.status = 502,
                          !.detail = Detail("ROLLER error", up.text), !.sent = sent2]
        ELSE IF up.status \notin ok
        THEN [base EXCEPT !.kind = "http", !.status = 502,
                          !.detail = Detail("upstream", up.text), !.sent = sent2]
        ELSE [base EXCEPT !.sent = sent2]

\* The slots of a 200 validate-and-reserve response.
Slots == <<"slot1", "slot2", "slot3">>

PostUpstream == {UpOk(Slots), UpCreated(Slots), UpFail(500), UpNetErr}

\* slots[:2]
FirstTwo(slots) == SubSeq(slots, 1, IF Len(slots) < 2 THEN Len(slots) ELSE 2)

\* GET /availability with the validation moved after the header build.
availability_validates_late ==
    /\ Idle
    /\ \E xkey \in XKeys, date \in DateInputs \ {<<>>}, startTime \in StartTimes :
        LET inp == [NoInput EXCEPT !.date = date, !.time = startTime] IN
        IF ~require_mw_key(xkey)
        THEN /\ last' = WithInput(Unauthorized("availability", xkey), inp)
             /\ UNCHANGED <<cfg, conc, now, caches>>
        ELSE \E ep \in EndpointsNow :
             LET h == headers(ep) IN
             IF DateMalformed(date) \/ StartTimeMalformed(startTime)
             THEN /\ last' = [WithInput(Invalid("availability", xkey, "malformed"), inp)
                                EXCEPT !.sent = h.sent]
                  /\ token_cache' = h.cache
                  /\ UNCHANGED <<cfg, conc, now, catalog_cache, avail_cache>>
             ELSE \E up \in UpstreamNow(h.kind = "return", PostUpstream) :
                LET c == guarded_post("validate-and-reserve", {200}, h, up)
                IN  /\ last' = WithInput(Response("availability", xkey, c, ep,
                                        [NoBody EXCEPT !.data = FirstTwo(up.data)]), inp)
                    /\ token_cache' = c.tcache
                    /\ UNCHANGED <<cfg, conc, now, catalog_cache, avail_cache>>

\* GET /availability
availability ==
    /\ Idle
    /\ \E xkey \in XKeys, date \in DateInputs \ {<<>>}, startTime \in StartTimes :
        LET inp == [NoInput EXCEPT !.date = date, !.time = startTime] IN
        IF ~require_mw_key(xkey)
        THEN /\ last' = WithInput(Unauthorized("availability", xkey), inp)
             /\ UNCHANGED <<cfg, conc, now, caches>>
        ELSE IF DateMalformed(date)
        THEN /\ last' = WithInput(Invalid("availability", xkey, "date must be YYYY-MM-DD"), inp)
             /\ UNCHANGED <<cfg, conc, now, caches>>
        ELSE IF StartTimeMalformed(startTime)
        THEN /\ last' = WithInput(Invalid("availability", xkey, "startTime must be HH:mm"), inp)
             /\ UNCHANGED <<cfg, conc, now, caches>>
        ELSE \E ep \in EndpointsNow :
             LET h == headers(ep) IN
             \E up \in UpstreamNow(h.kind = "return", PostUpstream) :
                LET c == guarded_post("validate-and-reserve", {200}, h, up)
                IN  /\ last' = WithInput(Response("availability", xkey, c, ep,
                                        [NoBody EXCEPT !.data = FirstTwo(up.data)]), inp)
                    /\ token_cache' = c.tcache
                    /\ UNCHANGED <<cfg, conc, now, catalog_cache, avail_cache>>

\* The Date and date parameters of GET /product-availability.
DatePairs == {<<<<>>, GoodDate>>, <<ShortDate, GoodDate>>, <<LettersDate, <<>>>>, <<<<>>, <<>>>>}

\* Date = Date or date
DateOr(Date, date) == IF Date # <<>> THEN Date ELSE date

\* GET /product-availability
product_availability ==
    /\ Idle
    /\ \E xkey \in XKeys, dates \in DatePairs, preferredTime \in PreferredTimes :
        LET D == DateOr(dates[1], dates[2])
            inp == [NoInput EXCEPT !.date = D, !.time = preferredTime]
        IN  IF ~require_mw_key(xkey)
            THEN /\ last' = WithInput(Unauthorized("product-availability", xkey), inp)
                 /\ UNCHANGED <<cfg, conc, now, caches>>
            ELSE IF D = <<>> \/ DateMalformed(D)
            THEN /\ last' = WithInput(Invalid("product-availability", xkey,
                                              "Date must be yyyy-MM-dd"), inp)
                 /\ UNCHANGED <<cfg, conc, now, caches>>
            ELSE \E ep \in IF AvailHit(D) \/ ~AvailabilityPathBound
                            THEN {NoEndpoint} ELSE EndpointsNow :
                 LET h == headers(ep) IN
                 \E up \in UpstreamNow(/\ ~AvailHit(D)
                                       /\ AvailabilityPathBound
                                       /\ h.kind = "return", AvailUpstream) :
                    LET f == availability_fetch(D, h, up)
                        data == IF preferredTime = <<>> THEN f.data
                                ELSE [i \in 1..Len(f.data) |->
                                        WithNeighbors(f.data[i], preferredTime)]
                    IN  /\ last' = WithInput(Response("product-availability", xkey, f, ep,
                                            [NoBody EXCEPT !.data = data]), inp)
                        /\ token_cache' = f.tcache
                        /\ avail_cache' =
                             IF f.kind = "return"
                             THEN [avail_cache EXCEPT ![D] =
                                     [present |-> TRUE,
                                      bucket |-> IF AvailHit(D) THEN @.bucket ELSE Bucket,
                                      data |-> data]]
                             ELSE avail_cache
                        /\ UNCHANGED <<cfg, conc, now, catalog_cache>>

\* POST /bookings
create_booking ==
    /\ Idle
    /\ \E xkey \in XKeys :
        IF ~require_mw_key(xkey)
        THEN last' = Unauthorized("bookings", xkey) /\ UNCHANGED <<cfg, conc, now, caches>>
        ELSE \E ep \in EndpointsNow :
             LET h == headers(ep) IN
             \E up \in UpstreamNow(h.kind = "return", PostUpstream) :
                LET c == guarded_post("bookings", {200, 201}, h, up)
                IN  /\ last' = Response("bookings", xkey, c, ep, NoBody)
                    /\ token_cache' = c.tcache
                    /\ UNCHANGED <<cfg, conc, now, catalog_cache, avail_cache>>

\* POST /bookings/{booking_id}/checkout
checkout ==
    /\ Idle
    /\ \E xkey \in XKeys :
        IF ~require_mw_key(xkey)
        THEN last' = Unauthorized("checkout", xkey) /\ UNCHANGED <<cfg, conc, now, caches>>
        ELSE \E ep \in EndpointsNow :
             LET h == headers(ep) IN
             \E up \in UpstreamNow(h.kind = "return", PostUpstream) :
                LET c == guarded_post("checkout", {200, 201}, h, up)
                IN  /\ last' = Response("checkout", xkey, c, ep, NoBody)
                    /\ token_cache' = c.tcache
                    /\ UNCHANGED <<cfg, conc, now, catalog_cache, avail_cache>>

\* {"status_code": ..., "text": ...}
Report(status_code, text) == [status_code |-> status_code, text |-> text]

NoReport == Report(0, NoText)

\* The order in which debug_oauth calls post_json, post_body, post_basic.
DebugOrder == <<"json", "body", "basic">>

\* The loop of debug_oauth from position i, and the return after it.  r and
\* last_err are local names bound only by a response and by a caught
\* RequestException: the final return reads both (getattr's default argument
\* is evaluated before the call), and reading an unbound one raises
\* UnboundLocalError.
RECURSIVE DebugLoop(_, _, _, _, _, _, _)
DebugLoop(ep, i, r, rBound, lastErr, errBound, sent) ==
    LET out == [kind |-> "return", status |-> 0, detail |-> NoDetail, auth |-> NoAuth,
                sent |-> sent, how |-> "skipped", report |-> NoReport]
        final == IF ~rBound
                 THEN [out EXCEPT !.kind = "exc", !.detail = Detail("UnboundLocalError", <<"r", "">>)]
                 ELSE IF ~errBound
                 THEN [out EXCEPT !.kind = "exc",
                                  !.detail = Detail("UnboundLocalError", <<"last_err", "">>)]
                 ELSE [out EXCEPT !.report = Report(r.status, r.text)]
    IN  IF i > Len(DebugOrder) THEN final
        ELSE LET resp == TokenResponse(ep, DebugOrder[i])
                 sent2 == Append(sent, TokenReq(DebugOrder[i]))
             IN  IF resp.kind = "neterr"
                 THEN DebugLoop(ep, i + 1, r, rBound, resp.text, TRUE, sent2)
                 ELSE IF resp.status = 200
                 THEN [out EXCEPT !.sent = sent2,
                                  !.report = Report(resp.status, resp.text)]
                 ELSE IF resp.status \in {400, 401, 415}
                 THEN DebugLoop(ep, i + 1, resp, TRUE, lastErr, errBound, sent2)
                 ELSE DebugLoop(ep, Len(DebugOrder) + 1, resp, TRUE, lastErr, errBound, sent2)

\* GET /debug/oauth
debug_oauth ==
    /\ Idle
    /\ \E xkey \in XKeys :
        IF ~require_mw_key(xkey)
        THEN last' = Unauthorized("debug-oauth", xkey) /\ UNCHANGED <<cfg, conc, now, caches>>
        ELSE \E ep \in Endpoints :
                LET d == DebugLoop(ep, 1, NetErr("none"), FALSE, NoText, FALSE, <<>>)
                IN  /\ last' = Response("debug-oauth", xkey, d, ep,
                                        [NoBody EXCEPT !.report = d.report])
                    /\ UNCHANGED <<cfg, conc, now, caches>>

\* A webhook receiver that checks the shared secret like the other endpoints
\* (the sender presents none).
roller_webhook_guarded ==
    /\ Idle
    /\ \E valid_json \in BOOLEAN :
        /\ last' = IF ~require_mw_key(None)
                   THEN WithInput(Unauthorized("webhook", None),
                                  [NoInput EXCEPT !.json = IF valid_json THEN "valid" ELSE "invalid"])
                   ELSE IF valid_json
                   THEN [NoCall EXCEPT !.op = "webhook", !.status = 200,
                                       !.input = [NoInput EXCEPT !.json = "valid"]]
                   ELSE [NoCall EXCEPT !.op = "webhook", !.status = 400,
                                       !.input = [NoInput EXCEPT !.json = "invalid"],
                                       !.detail = Detail("Invalid JSON", NoText)]
        /\ UNCHANGED <<cfg, conc, now, caches>>

\* POST /webhooks/roller: no X-API-Key parameter; 400 when the body is not JSON.
roller_webhook ==
    /\ Idle
    /\ \E valid_json \in BOOLEAN :
        /\ last' = IF valid_json
                   THEN [NoCall EXCEPT !.op = "webhook", !.status = 200,
                                       !.input = [NoInput EXCEPT !.json = "valid"]]
                   ELSE [NoCall EXCEPT !.op = "webhook", !.status = 400,
                                       !.input = [NoInput EXCEPT !.json = "invalid"],
                                       !.detail = Detail("Invalid JSON", NoText)]
        /\ UNCHANGED <<cfg, conc, now, caches>>

\* GET /healthz and GET /: no X-API-Key parameter, no state.
healthz ==
    /\ Idle
    /\ \E op \in {"healthz", "root"} :
        /\ last' = [NoCall EXCEPT !.op = op, !.status = 200]
        /\ UNCHANGED <<cfg, conc, now, caches>>

\* The response is delivered; the next request can be handled.
Respond ==
    /\ ~Idle
    /\ last' = NoCall
    /\ UNCHANGED <<cfg, conc, now, caches>>

\* Time passes between requests.
Tick ==
    /\ Idle
    /\ \E t \in Instants :
        /\ t > now
        /\ now' = t
        /\ UNCHANGED <<cfg, conc, caches, last>>

\* The dates that pass the handlers' validation: the keys of the lru_cache.
CacheDates == {d \in DateInputs : d # <<>> /\ ~DateMalformed(d)}

\* The threadpool workers that run the synchronous handlers.
Threads == {"t1", "t2"}

\* What a worker's last finished call returned: kind "token" or "items",
\* cached when the value came from the early return on a fresh cache, at the
\* instant of the return.
NoRet == [kind |-> "none", cached |-> FALSE, token |-> None, items |-> <<>>, at |-> 0]

\* A worker: pc is the statement it is about to run, now the local variable
\* of that name, data the token response body, items the fetched catalog,
\* calls the number of calls it has begun.
IdleThread == [pc |-> "idle", now |-> 0, data |-> NoPayload, items |-> <<>>,
               calls |-> 0, ret |-> NoRet]

\* issued: the (token, expiry) of every 200 token response so far; fetches:
\* the (items, start instant) of every catalog fetch answered so far.
NoHistory == [issued |-> {}, fetches |-> {}]

Init ==
    /\ cfg \in Configs
    /\ now = Epoch
    /\ token_cache = [token |-> None, exp |-> 0]
    /\ catalog_cache = [at |-> 0, items |-> <<>>]
    /\ avail_cache = [d \in CacheDates |-> NoEntry]
    /\ last = NoCall
    /\ threads = [t \in Threads |-> IdleThread]
    /\ history = NoHistory

Next ==
    \/ list_catalog
    \/ resolve_package
    \/ availability
    \/ product_availability
    \/ create_booking
    \/ checkout
    \/ debug_oauth
    \/ roller_webhook
    \/ healthz
    \/ Respond
    \/ Tick

Spec == Init /\ [][Next]_vars

(***************************************************************************)
(* The resolver over a wide range of queries and cached catalogs           *)
(***************************************************************************)
\* The longest query built from ResolverAlphabet.
MaxQueryLen == 3

ResolverAlphabet == {"j", "u", "p", " ", "!", "J"}

RECURSIVE SeqsUpTo(_, _)
SeqsUpTo(S, n) ==
    IF n = 0 THEN {<<>>}
    ELSE LET shorter == SeqsUpTo(S, n - 1)
         IN  shorter \cup {Append(q, c) : q \in shorter, c \in S}

ResolverQueries ==
    SeqsUpTo(ResolverAlphabet, MaxQueryLen)
    \cup {<<"J", "u", "m", "p", "!">>, <<"j", "u", "b">>, <<"b", "d", "a", "y", " ">>}

\* A catalog item as _fetch_catalog_from_roller builds it.
Item(pid, name) ==
    [productId |-> pid, name |-> name, durationMinutes |-> 120, resourceTypes |-> <<>>]

ItemJump == Item("p1", <<"J", "u", "m", "p">>)

\* Another product whose name normalizes like ItemJump's.
ItemJumpTwin == Item("p5", <<"j", "u", "m", "p", "!">>)

ItemBday == Item("pp2", <<"B", "d", "a", "y">>)

\* Eleven products (one more than resolve_package lists as choices).
ElevenItems ==
    <<Item("q1", <<"a">>), Item("q2", <<"b">>), Item("q3", <<"d">>), Item("q4", <<"y">>),
      Item("q5", <<"u", "p">>), Item("q6", <<"j">>), Item("q7", <<"u">>),
      Item("q8", <<"J", "u">>), Item("q9", <<"p">>), Item("q10", <<"j", "u">>),
      Item("q11", <<"m">>)>>

\* The item lists found in the catalog cache.
ResolverCatalogs ==
    {<<ItemJump>>, <<ItemJump, ItemBday>>, <<ItemBday, ItemJump, ItemJumpTwin>>,
     <<ItemJumpTwin, ItemBday, ItemJump>>, ElevenItems}

\* A static-key deployment without a shared secret whose catalog cache is
\* empty or was filled at Epoch.
ResolverInit ==
    /\ cfg = MkConfig("", "key", AllCreds, "basic", "roller-key")
    /\ now = Epoch
    /\ token_cache = [token |-> None, exp |-> 0]
    /\ catalog_cache \in {[at |-> 0, items |-> <<>>]}
                          \cup {[at |-> Epoch, items |-> c] : c \in ResolverCatalogs}
    /\ avail_cache = [d \in CacheDates |-> NoEntry]
    /\ last = NoCall
    /\ threads = [t \in Threads |-> IdleThread]
    /\ history = NoHistory

ResolverNext ==
    \/ resolve_package_over(ResolverQueries)
    \/ Respond

ResolverSpec == ResolverInit /\ [][ResolverNext]_vars

(***************************************************************************)
(* Catalog refreshes over many upstream bodies and name filters            *)
(***************************************************************************)
\* The longest products body built from CatalogRecords.
MaxCatalogLen == 2

\* A record whose id and name sit under the last alias fields.
RawByCode ==
    [RawProduct(None, None, <<>>, <<>>, <<"A", "J", "u">>, 0, <<>>, None)
        EXCEPT !.code = "c9", !.durationMinutes = 45]

\* A record whose ids are empty strings.
RawEmptyId == RawProduct("", "", <<>>, <<"J", "u", "m", "p">>, <<>>, 60, <<>>, None)

CatalogRecords == {RawJump, RawBday, RawNoId, RawNoName, RawByCode, RawEmptyId}

CatalogBodies == SeqsUpTo(CatalogRecords, MaxCatalogLen)

CatalogUpstream == {UpOk(c) : c \in CatalogBodies} \cup {UpFail(500), UpNetErr}

\* The values of the environment variable CATALOG_NAME_FILTER.
FilterValues == {<<>>, <<"J", "u">>, <<"k", "i", "d">>}

\* Static-key deployments without a shared secret:
\* CATALOG_NAME_FILTER = os.getenv("CATALOG_NAME_FILTER", "").lower()
CatalogConfigs ==
    {[MkConfig("", "key", AllCreds, "basic", "roller-key")
        EXCEPT !.CATALOG_NAME_FILTER = Lower(f)] : f \in FilterValues}

CatalogInit ==
    /\ cfg \in CatalogConfigs
    /\ now = Epoch
    /\ token_cache = [token |-> None, exp |-> 0]
    /\ catalog_cache = [at |-> 0, items |-> <<>>]
    /\ avail_cache = [d \in CacheDates |-> NoEntry]
    /\ last = NoCall
    /\ threads = [t \in Threads |-> IdleThread]
    /\ history = NoHistory

CatalogNext ==
    \/ list_catalog_over(CatalogUpstream)
    \/ Respond
    \/ Tick

CatalogSpec == CatalogInit /\ [][CatalogNext]_vars

(***************************************************************************)
(* Concurrent calls of _bearer and _get_catalog                            *)
(*                                                                         *)
(* The handlers are plain def functions, which FastAPI runs on threadpool  *)
(* workers; nothing in app.py locks the two module-level caches.  Each     *)
(* worker runs one call at a time, one statement per step, and time may    *)
(* pass between any two steps.  The reads of a freshness test and of the   *)
(* return that follows it are taken in one step.                           *)
(***************************************************************************)
\* How many calls one worker begins.
MaxCalls == 2

ConcOffsets == {0, 2, 60, 601}

ConcInstants == {Epoch + d : d \in ConcOffsets}

\* A bearer-mode deployment, whose workers call _bearer, and a static-key
\* deployment, whose workers call _get_catalog (its _headers() then never
\* touches the token cache).
ConcConfigs ==
    {MkConfig("", "oauth", AllCreds, "json", ""),
     MkConfig("", "key", AllCreds, "basic", "roller-key")}

\* What the token endpoint does during one concurrent call: it treats the
\* three styles alike and its 200 answers carry a token.
ConcEndpoints ==
    {ep \in BearerEndpoints :
        /\ \A s1, s2 \in Styles : ep.outcome[s1] = ep.outcome[s2]
        /\ ep.payload = NoPayload \/ ep.payload.access_token # None}

ConcInit ==
    /\ cfg \in ConcConfigs
    /\ now = Epoch
    /\ token_cache = [token |-> None, exp |-> 0]
    /\ catalog_cache = [at |-> 0, items |-> <<>>]
    /\ avail_cache = [d \in CacheDates |-> NoEntry]
    /\ last = NoCall
    /\ threads = [t \in Threads |-> IdleThread]
    /\ history = NoHistory

Returned(th, kind, cached, token, items) ==
    [th EXCEPT !.pc = "idle",
               !.ret = [kind |-> kind, cached |-> cached, token |-> token,
                        items |-> items, at |-> now]]

Raised(th) == [th EXCEPT !.pc = "idle", !.ret = NoRet]

\* _bearer(), up to the first token request: now = time.time(), the early
\* return on a fresh cache, the configuration check.
BearerBegin(t) ==
    LET th == [threads[t] EXCEPT !.calls = @ + 1, !.now = now]
    IN  /\ threads[t].pc = "idle"
        /\ threads[t].calls < MaxCalls
        /\ cfg.AUTH_TYPE # "key"
        /\ threads' = [threads EXCEPT ![t] =
                IF TokenFresh THEN Returned(th, "token", TRUE, token_cache.token, <<>>)
                ELSE IF ~CredsPresent THEN Raised(th)
                ELSE [th EXCEPT !.pc = "post"]]
        /\ UNCHANGED <<cfg, now, caches, last, history>>

\* The token requests of one call are answered: a network error or a
\* rejection by every style raises; a 200 leaves its body in data.
BearerResponse(t) ==
    /\ threads[t].pc = "post"
    /\ \E ep \in ConcEndpoints :
        LET n == Negotiate(ep, FallbackOrder(cfg.ROLLER_TOKEN_STYLE), 1, <<>>)
            ok == ~n.raised /\ n.r.status = 200
        IN  /\ threads' = [threads EXCEPT ![t] =
                    IF ok THEN [@ EXCEPT !.pc = "store_token", !.data = n.r.json]
                    ELSE Raised(@)]
            /\ history' = IF ok
                          THEN [history EXCEPT !.issued = @ \cup
                                    {[token |-> n.r.json.access_token,
                                      exp |-> threads[t].now + ExpiresIn(n.r.json)]}]
                          ELSE history
    /\ UNCHANGED <<cfg, now, caches, last>>

\* _token_cache["token"] = data.get("access_token")
BearerStoreToken(t) ==
    /\ threads[t].pc = "store_token"
    /\ token_cache' = [token_cache EXCEPT !.token = threads[t].data.access_token]
    /\ threads' = [threads EXCEPT ![t].pc = "store_exp"]
    /\ UNCHANGED <<cfg, now, catalog_cache, avail_cache, last, history>>

\* _token_cache["exp"] = now + int(data.get("expires_in", 3600)), then
\* return _token_cache["token"]
BearerStoreExp(t) ==
    /\ threads[t].pc = "store_exp"
    /\ token_cache' = [token_cache EXCEPT !.exp = threads[t].now + ExpiresIn(threads[t].data)]
    /\ threads' = [threads EXCEPT ![t] =
            Returned([@ EXCEPT !.data = NoPayload], "token", FALSE, token_cache.token, <<>>)]
    /\ UNCHANGED <<cfg, now, catalog_cache, avail_cache, last, history>>

\* _get_catalog(), up to the GET of the products: now = time.time() and the
\* early return on a fresh cache.
CatalogBegin(t) ==
    LET th == [threads[t] EXCEPT !.calls = @ + 1, !.now = now]
    IN  /\ threads[t].pc = "idle"
        /\ threads[t].calls < MaxCalls
        /\ cfg.AUTH_TYPE = "key"
        /\ cfg.API_KEY # ""
        /\ threads' = [threads EXCEPT ![t] =
                IF CatalogFresh THEN Returned(th, "items", TRUE, None, catalog_cache.items)
                ELSE [th EXCEPT !.pc = "get"]]
        /\ UNCHANGED <<cfg, now, caches, last, history>>

\* items = _fetch_catalog_from_roller(): the GET is answered; a network
\* error or a non-200 status raises.
CatalogResponse(t) ==
    /\ threads[t].pc = "get"
    /\ \E up \in ProductsUpstream :
        LET f == fetch_catalog_from_roller(headers(NoEndpoint), up)
            ok == f.kind = "return"
        IN  /\ threads' = [threads EXCEPT ![t] =
                    IF ok THEN [@ EXCEPT !.pc = "store_items", !.items = f.items]
                    ELSE Raised(@)]
            /\ history' = IF ok
                          THEN [history EXCEPT !.fetches = @ \cup
                                    {[items |-> f.items, started |-> threads[t].now]}]
                          ELSE history
    /\ UNCHANGED <<cfg, now, caches, last>>

\* _catalog_cache["items"] = items
CatalogStoreItems(t) ==
    /\ threads[t].pc = "store_items"
    /\ catalog_cache' = [catalog_cache EXCEPT !.items = threads[t].items]
    /\ threads' = [threads EXCEPT ![t].pc = "store_at"]
    /\ UNCHANGED <<cfg, now, token_cache, avail_cache, last, history>>

\* _catalog_cache["at"] = now, then return items
CatalogStoreAt(t) ==
    /\ threads[t].pc = "store_at"
    /\ catalog_cache' = [catalog_cache EXCEPT !.at = threads[t].now]
    /\ threads' = [threads EXCEPT ![t] =
            Returned([@ EXCEPT !.items = <<>>], "items", FALSE, None, threads[t].items)]
    /\ UNCHANGED <<cfg, now, token_cache, avail_cache, last, history>>

\* Time passes between two steps of the workers.
ConcTick ==
    /\ \E i \in ConcInstants :
        /\ i > now
        /\ now' = i
    /\ UNCHANGED <<cfg, caches, last, conc>>

ConcNext ==
    \/ \E t \in Threads : BearerBegin(t)
    \/ \E t \in Threads : BearerResponse(t)
    \/ \E t \in Threads : BearerStoreToken(t)
    \/ \E t \in Threads : BearerStoreExp(t)
    \/ \E t \in Threads : CatalogBegin(t)
    \/ \E t \in Threads : CatalogResponse(t)
    \/ \E t \in Threads : CatalogStoreItems(t)
    \/ \E t \in Threads : CatalogStoreAt(t)
    \/ ConcTick

ConcSpec == ConcInit /\ [][ConcNext]_vars

(***************************************************************************)
(* Properties                                                              *)
(***************************************************************************)
IsTokenReq(r) == r[1] = "token"

IsApiReq(r) == r[1] = "api"

\* The token requests and the upstream API requests a handler run sent.
TokenReqs(sent) == SelectSeq(sent, IsTokenReq)

ApiReqs(sent) == SelectSeq(sent, IsApiReq)

NoRepeat(seq) == \A i, j \in 1..Len(seq) : seq[i] = seq[j] => i = j

\* This step handles a request.
Handling == last = NoCall /\ last' # NoCall

\* The run of the last request called _bearer past the auth-mode check.
Negotiated(l) == l.how \in {"negotiated", "auth_failed", "network_error"}

\* The endpoints whose handlers call the upstream API.
UpstreamOps == {"catalog", "resolve-package", "availability", "product-availability",
                "bookings", "checkout"}

\* The endpoints whose handlers get as far as _headers().
HeaderOps ==
    IF AvailabilityPathBound THEN UpstreamOps ELSE UpstreamOps \ {"product-availability"}

GuardedOps == UpstreamOps \cup {"debug-oauth"}

InitialTokenCache == [token |-> None, exp |-> 0]

\* C1: whenever _bearer negotiates with all three credentials present and the
\* token endpoint answers 200 to at least one of the three styles (and no
\* request of the run fails on the network), the negotiation succeeds,
\* whatever the preferred style.
C1_FallbackThroughAllStyles ==
    (last.how \in {"negotiated", "auth_failed"} /\ last.accepts # {})
        => last.how = "negotiated"

\* C2: a getToken call issued while a cached token exists and
\* now < expiresAt - 60 returns the cached token, sends nothing to the token
\* endpoint and leaves the cache alone; one issued at or after expiresAt - 60
\* runs exactly one negotiation (each style sent at most once, at least one
\* sent); and a negotiation that succeeds at instant t0 with expires_in E
\* stores expiresAt = t0 + E (3600 when the response has no expires_in).
C2_TokenCacheExpiryBoundary ==
    [][(Handling /\ cfg.AUTH_TYPE # "key" /\ last'.how # "skipped") =>
        /\ (Truthy(token_cache.token) /\ now < token_cache.exp - 60) =>
              /\ last'.how = "cached"
              /\ TokenReqs(last'.sent) = <<>>
              /\ last'.auth = <<"Bearer", token_cache.token>>
              /\ token_cache' = token_cache
        /\ (Truthy(token_cache.token) /\ now >= token_cache.exp - 60) =>
              /\ Negotiated(last')
              /\ TokenReqs(last'.sent) # <<>>
              /\ NoRepeat(TokenReqs(last'.sent))
        /\ last'.how = "negotiated" =>
              \E p \in Payloads :
                  /\ token_cache'.token = p.access_token
                  /\ token_cache'.exp = now + (IF p.expires_in = {} THEN 3600
                                               ELSE CHOOSE e \in p.expires_in : TRUE)
    ]_vars

\* C2 witness: a token stored at Epoch with the default 3600 s is found stale
\* by a request issued exactly at Epoch + 3540, whose renegotiation is
\* rejected (so the cache still shows the old expiry).
C2_Witness ==
    /\ last.how = "auth_failed"
    /\ Truthy(token_cache.token)
    /\ token_cache.exp = Epoch + 3600
    /\ now = Epoch + 3540

\* C3: when the token endpoint answers no style with 200 (and every request
\* sent got an HTTP answer), the request fails with a handled HTTP 502 whose
\* detail quotes the body of the last response received, no Authorization
\* header is built and no upstream request is sent.
C3_AllStylesRejected ==
    (last.how \in {"negotiated", "auth_failed"} /\ last.accepts = {}) =>
        /\ last.how = "auth_failed"
        /\ last.status = 502
        /\ ~last.unhandled
        /\ last.detail = Detail("Auth failed", <<"rejected", last.sent[Len(last.sent)][2]>>)
        /\ last.auth = NoAuth
        /\ ApiReqs(last.sent) = <<>>

\* C3 witness: under preferred style json all three styles were sent and
\* rejected.
C3_Witness ==
    /\ last.how = "auth_failed"
    /\ last.accepts = {}
    /\ cfg.ROLLER_TOKEN_STYLE = "json"
    /\ Len(last.sent) = 3

\* C4: a network error on a token-endpoint call is answered with a handled
\* HTTP 502 on every handler, never with an escaping exception.
C4_TokenNetworkErrorIs502 ==
    last.how = "network_error" => (last.status = 502 /\ ~last.unhandled)

\* C5: a 200 token response without access_token is a failure: no request
\* ends with a None token stored in the cache or sent as "Bearer None".
C5_MissingAccessTokenSurfaced ==
    /\ last.how = "negotiated" => Truthy(token_cache.token)
    /\ last.auth # <<"Bearer", None>>

\* C6 as stated: once a getCatalog call has stored a catalog at instant `at`,
\* a getCatalog call less than TTL seconds later sends no products request
\* and returns the stored items, whatever the upstream catalog was.
C6_CatalogIdempotentAnyResponse ==
    [][(/\ Handling
        /\ last'.op \in {"catalog", "resolve-package"}
        /\ last'.status # 401
        /\ catalog_cache.at > 0
        /\ now - catalog_cache.at < CATALOG_TTL) =>
            /\ ApiReqs(last'.sent) = <<>>
            /\ last'.body.items = catalog_cache.items
    ]_vars

\* C6 amended: once a getCatalog call has stored a non-empty item list at
\* instant `at`, a getCatalog call less than TTL seconds later sends nothing
\* (no products request, no token request), returns the stored items and
\* leaves the cache alone; and no getCatalog call sends more than one
\* products request.
C6_CatalogIdempotentNonEmpty ==
    [][(Handling /\ last'.op \in {"catalog", "resolve-package"} /\ last'.status # 401) =>
        /\ (/\ catalog_cache.items # <<>>
            /\ catalog_cache.at > 0
            /\ now - catalog_cache.at < CATALOG_TTL) =>
                /\ last'.sent = <<>>
                /\ last'.status = 200
                /\ last'.body.items = catalog_cache.items
                /\ catalog_cache' = catalog_cache
        /\ Len(ApiReqs(last'.sent)) <= 1
    ]_vars

\* C6 witness: a second call 540 s after the fetch is served from the cache.
C6_Witness ==
    /\ last.op = "catalog"
    /\ last.status = 200
    /\ last.sent = <<>>
    /\ catalog_cache.items # <<>>
    /\ now - catalog_cache.at = 540

\* C7: a catalog refresh whose products request fails (non-200 or network
\* error) is answered with a handled HTTP 502.
C7_CatalogFetchFailureIs502 ==
    (/\ last.op \in {"catalog", "resolve-package"}
     /\ ApiReqs(last.sent) # <<>>
     /\ last.status # 200) => (last.status = 502 /\ ~last.unhandled)

\* C8 as stated: in static-key mode no request sends anything to the token
\* endpoint.
C8_KeyModeNoTokenCalls ==
    cfg.AUTH_TYPE = "key" => TokenReqs(last.sent) = <<>>

\* C8 amended: in static-key mode the token cache stays in its initial
\* state, no endpoint other than GET /debug/oauth sends anything to the token
\* endpoint, every upstream request carries the static key, and with the key
\* absent every handler that builds headers answers a handled 500 before any
\* upstream request.
C8_KeyModeBypassesTokenCache ==
    cfg.AUTH_TYPE = "key" =>
        /\ token_cache = InitialTokenCache
        /\ last.op # "debug-oauth" => TokenReqs(last.sent) = <<>>
        /\ ApiReqs(last.sent) # <<>> =>
              (cfg.API_KEY # "" /\ last.auth = <<"x-api-key", cfg.API_KEY>>)
        /\ (cfg.API_KEY = "" /\ last.op \in HeaderOps) =>
              /\ last.sent = <<>>
              /\ last.status \in {401, 422, 500}
              /\ last.status = 500 =>
                    /\ ~last.unhandled
                    /\ last.detail = Detail("ROLLER_API_KEY missing for key auth", NoText)

\* C8 witness: an upstream request went out under the static key.
C8_Witness ==
    /\ cfg.AUTH_TYPE = "key"
    /\ last.op = "bookings"
    /\ last.status = 200
    /\ last.auth = <<"x-api-key", "roller-key">>

\* C9: in bearer mode with any of TOKEN_URL, CLIENT_ID, CLIENT_SECRET absent,
\* every request of an endpoint whose handler calls getToken that passes the
\* shared-secret check and the validation is answered with a handled 500, and
\* no request to an upstream-facing endpoint sends anything, neither to the
\* token endpoint nor upstream.
C9_MissingCredsConfigError ==
    (/\ cfg.AUTH_TYPE # "key"
     /\ (cfg.TOKEN_URL = "" \/ cfg.CLIENT_ID = "" \/ cfg.CLIENT_SEC = "")) =>
        /\ token_cache = InitialTokenCache
        /\ last.op \in UpstreamOps => last.sent = <<>>
        /\ last.op \in HeaderOps =>
              /\ last.status \in {401, 422, 500}
              /\ last.status = 500 =>
                    /\ ~last.unhandled
                    /\ last.how = "config_error"
                    /\ last.detail = Detail("OAuth configured but TOKEN_URL/CLIENT_ID/CLIENT_SECRET missing", NoText)

\* C9 witness: only the client secret is missing and a catalog request got
\* the 500.
C9_Witness ==
    /\ cfg.AUTH_TYPE = "oauth"
    /\ cfg.TOKEN_URL # "" /\ cfg.CLIENT_ID # "" /\ cfg.CLIENT_SEC = ""
    /\ last.op = "catalog"
    /\ last.status = 500

\* C10: with a shared secret configured, a request to an endpoint that
\* reaches the upstream API or the token endpoint whose X-API-Key is missing
\* or different is answered 401 with nothing sent and no cache changed; with
\* no secret configured no request is answered 401.
C10_SharedSecretCheckedFirst ==
    [][Handling =>
        /\ (/\ cfg.MW_API_KEY # ""
            /\ last'.op \in GuardedOps
            /\ last'.xkey # cfg.MW_API_KEY) =>
                /\ last'.status = 401
                /\ last'.sent = <<>>
                /\ caches' = caches
        /\ cfg.MW_API_KEY = "" => last'.status # 401
    ]_vars

\* C10 witness: /debug/oauth refused a request that carries no X-API-Key.
C10_Witness ==
    /\ cfg.MW_API_KEY # ""
    /\ last.op = "debug-oauth"
    /\ last.xkey = None
    /\ last.status = 401

\* The run of the last request returned from resolve_package (it passed the
\* shared-secret check and _get_catalog returned).
Resolved == last.op = "resolve-package" /\ last.status = 200

\* a <= b for fractions num/den
FracLeq(a, b) == a.num * b.den <= b.num * a.den

\* The similarity of the normalized query of the last request and item i of
\* the catalog it was answered from.
ScoreOf(i) == Ratio(norm(last.input.q), norm(last.body.items[i].name))

\* Item i attains the maximum score and no earlier item does.
FirstBest(i) ==
    /\ \A j \in 1..Len(last.body.items) : FracLeq(ScoreOf(j), ScoreOf(i))
    /\ \A j \in 1..(i - 1) : ~FracLeq(ScoreOf(i), ScoreOf(j))

\* The first min(10, n) of the items.
UpToTen(items) == [k \in 1..(IF Len(items) < 10 THEN Len(items) ELSE 10) |-> items[k]]

\* C11: for a non-empty normalized query and a non-empty catalog, the answer
\* is matched exactly when the maximum score is at least 0.62, the product is
\* then the first catalog item of that score, and otherwise the choices are
\* the first ten catalog items as {productId, name}.
C11_ResolverDecisionRule ==
    (Resolved /\ norm(last.input.q) # <<>> /\ last.body.items # <<>>) =>
        \E i \in 1..Len(last.body.items) :
            /\ FirstBest(i)
            /\ IF ScoreOf(i).num * 100 >= 62 * ScoreOf(i).den
               THEN /\ last.body.res.matched
                    /\ last.body.res.product = last.body.items[i]
               ELSE /\ ~last.body.res.matched
                    /\ last.body.res.choices =
                         [k \in 1..Len(UpToTen(last.body.items)) |->
                            [productId |-> last.body.items[k].productId,
                             name |-> last.body.items[k].name]]

\* C11 witness: two items tie at the top score; the earlier one is returned.
C11_Witness ==
    /\ Resolved
    /\ last.body.res.matched
    /\ last.body.items = <<ItemJumpTwin, ItemBday, ItemJump>>
    /\ last.body.res.product = ItemJumpTwin
    /\ norm(last.input.q) = <<"j", "u">>

\* C12: when the query normalizes to empty or the catalog is empty, the
\* answer is unmatched, its choices are the first min(10, size) catalog items
\* (never more than ten) and no score was computed.
C12_ResolverShortCircuit ==
    (Resolved /\ (norm(last.input.q) = <<>> \/ last.body.items = <<>>)) =>
        /\ ~last.body.res.matched
        /\ ~last.body.res.scored
        /\ last.body.res.choices = UpToTen(last.body.items)
        /\ Len(last.body.res.choices) <= 10

\* C12 witness: a query of punctuation and blanks against eleven items gets
\* ten choices.
C12_Witness ==
    /\ Resolved
    /\ last.input.q = <<"!", " ">>
    /\ Len(last.body.items) = 11
    /\ Len(last.body.res.choices) = 10
    /\ ~last.body.res.scored

AvailabilityOps == {"availability", "product-availability"}

\* The start times of a session list, in minutes, in ascending order.
SortedStarts(sessions) ==
    LET sorted == SortSessions(sessions)
    IN  [i \in 1..Len(sorted) |-> to_minutes(sorted[i])]

\* neighborSessions holds the session nearest to the preferred time with its
\* predecessor and its successor in start-time order.
NeighborsAsClaimed(prod) ==
    LET starts == SortedStarts(prod.sessions)
        pt == to_minutes(prod.preferred)
    IN  \E n \in 1..Len(starts) :
            /\ \A j \in 1..Len(starts) : Abs(starts[n] - pt) <= Abs(starts[j] - pt)
            /\ LET lo == IF n > 1 THEN n - 1 ELSE n
                   hi == IF n < Len(starts) THEN n + 1 ELSE n
               IN  /\ Len(prod.neighborSessions) = hi - lo + 1
                   /\ \A k \in 1..(hi - lo + 1) :
                         to_minutes(prod.neighborSessions[k]) = starts[lo + k - 1]

\* C13: a GET /product-availability request that passes the shared-secret
\* check with a well-formed Date and a preferredTime is answered (200 or a
\* handled upstream failure), and in a 200 every product with sessions
\* carries the nearest session with its predecessor and successor.
C13_NeighborSelection ==
    (/\ last.op = "product-availability"
     /\ last.status \notin {401, 422}
     /\ last.input.time # <<>>) =>
        /\ ~last.unhandled
        /\ last.status = 200 =>
              \A i \in 1..Len(last.body.data) :
                  last.body.data[i].sessions # <<>> => NeighborsAsClaimed(last.body.data[i])

Digit(ch) == ch \in {"0", "1", "2", "3", "4", "5", "6", "7", "8", "9"}

\* Four digits, a hyphen, two digits, a hyphen, two digits.
StrictDate(date) ==
    /\ Len(date) = 10
    /\ \A i \in {1, 2, 3, 4, 6, 7, 9, 10} : Digit(date[i])
    /\ date[5] = "-" /\ date[8] = "-"

\* C14: an availability request that passes the shared-secret check is
\* answered 422 whenever its date is not exactly YYYY-MM-DD, and is not
\* answered 422 when its date is and its time input is well formed.
C14_DateValidationStrict ==
    (last.op \in AvailabilityOps /\ last.status # 401) =>
        /\ ~StrictDate(last.input.date) => last.status = 422
        /\ (StrictDate(last.input.date) /\ ~StartTimeMalformed(last.input.time)) =>
              last.status # 422

\* C15: an availability request answered 422 sent nothing, neither upstream
\* nor to the token endpoint, and left every cache as it was; and a request
\* that passes the shared-secret check with a date or startTime the handler
\* finds malformed is answered 422.
C15_ValidationPrecedesTraffic ==
    [][(Handling /\ last'.op \in AvailabilityOps) =>
        /\ last'.status = 422 =>
              /\ last'.sent = <<>>
              /\ caches' = caches
              /\ ~last'.unhandled
        /\ (/\ require_mw_key(last'.xkey)
            /\ \/ last'.input.date = <<>>
               \/ DateMalformed(last'.input.date)
               \/ last'.op = "availability" /\ StartTimeMalformed(last'.input.time)) =>
              last'.status = 422
    ]_vars

\* C15 witness: in bearer mode with no token cached, a request with a
\* malformed startTime got its 422.
C15_Witness ==
    /\ cfg.AUTH_TYPE = "oauth"
    /\ CredsPresent
    /\ token_cache = InitialTokenCache
    /\ last.op = "availability"
    /\ last.input.date = GoodDate
    /\ last.input.time = <<"9", ":", "0", "0">>
    /\ last.status = 422

\* C16: POST /webhooks/roller is answered 400 when its body is not JSON and
\* 200 otherwise, by a handled response, with nothing sent and no cache
\* changed, whatever the configuration and the caches.
C16_WebhookFailSoft ==
    [][(Handling /\ last'.op = "webhook") =>
        /\ last'.input.json \in {"valid", "invalid"}
        /\ last'.status = IF last'.input.json = "invalid" THEN 400 ELSE 200
        /\ ~last'.unhandled
        /\ last'.sent = <<>>
        /\ caches' = caches
    ]_vars

\* C16 witness: a 200 for a sender that presents no X-API-Key, with a shared
\* secret configured and the bearer credentials incomplete.
C16_Witness ==
    /\ last.op = "webhook"
    /\ last.status = 200
    /\ last.xkey = None
    /\ cfg.MW_API_KEY # ""
    /\ cfg.AUTH_TYPE = "oauth"
    /\ ~CredsPresent

\* The position in the sent token requests of the first one the endpoint
\* answers 200 (0: none).
FirstAccepted(sent, accepts) ==
    IF \E i \in 1..Len(sent) : sent[i][2] \in accepts
    THEN CHOOSE i \in 1..Len(sent) :
            sent[i][2] \in accepts /\ \A j \in 1..(i - 1) : sent[j][2] \notin accepts
    ELSE 0

\* C20: in a handler run that negotiates, each style is sent at most once,
\* at most three token requests are sent, the first is of the preferred
\* style, and none follows the first 200 answer.
C20_NoRetryInNegotiation ==
    Negotiated(last) =>
        LET tok == TokenReqs(last.sent)
        IN  /\ tok # <<>>
            /\ NoRepeat(tok)
            /\ Len(tok) <= 3
            /\ tok[1] = <<"token", cfg.ROLLER_TOKEN_STYLE>>
            /\ FirstAccepted(tok, last.accepts) \in {0, Len(tok)}

\* C20 witness: preferred style json, rejected; body accepted; basic, which
\* the endpoint would accept too, is not sent.
C20_Witness ==
    /\ last.how = "negotiated"
    /\ cfg.ROLLER_TOKEN_STYLE = "json"
    /\ last.accepts = {"body", "basic"}
    /\ TokenReqs(last.sent) = <<<<"token", "json">>, <<"token", "body">>>>

\* No worker stands between the two statements that write the token cache.
NoTokenWriteInProgress == \A t \in Threads : threads[t].pc # "store_exp"

\* C17: under any interleaving of concurrent getToken calls, whenever no
\* call is half way through its write, the cached (token, expiry) pair is
\* the pair of one single negotiation response (or the cache is still as
\* constructed), never the token of one refresh with the expiry of another.
C17_TokenCacheReplacedWholesale ==
    NoTokenWriteInProgress =>
        \/ token_cache = [token |-> None, exp |-> 0]
        \/ \E i \in history.issued :
                i.token = token_cache.token /\ i.exp = token_cache.exp

\* C18: under any interleaving of concurrent bearer-mode calls, a token
\* returned from the cache at instant t was issued by a response whose own
\* expiry (negotiation instant plus expires_in) lies more than 60 seconds
\* after t.
C18_CachedTokenWithinOwnExpiry ==
    \A t \in Threads :
        (threads[t].ret.kind = "token" /\ threads[t].ret.cached) =>
            \E i \in history.issued :
                /\ i.token = threads[t].ret.token
                /\ threads[t].ret.at < i.exp - SAFETY_MARGIN

\* C19: in every execution, concurrent getCatalog calls included, items
\* returned from the cache at instant t were fetched by a fetch that started
\* no earlier than t - TTL.
C19_CatalogNeverStaleBeyondTTL ==
    \A t \in Threads :
        (threads[t].ret.kind = "items" /\ threads[t].ret.cached) =>
            \E f \in history.fetches :
                /\ f.items = threads[t].ret.items
                /\ f.started >= threads[t].ret.at - CATALOG_TTL

\* The ways a call of getToken fails.
TokenFailures == {"config_error", "auth_failed", "network_error"}

\* The endpoints whose handlers call getCatalog.
CatalogOps == {"catalog", "resolve-package"}

\* C21: a request whose call of getToken fails (configuration error, every
\* style rejected, network error) leaves the token cache exactly as it was,
\* and a request whose call of getCatalog fails leaves the catalog cache
\* exactly as it was.
C21_FailedRefreshLeavesCache ==
    [][Handling =>
        /\ last'.how \in TokenFailures => token_cache' = token_cache
        /\ (last'.op \in CatalogOps /\ last'.status \notin {200, 401}) =>
              catalog_cache' = catalog_cache
    ]_vars

\* C21 witness: a catalog request fails in getToken with an expired token
\* and a stale catalog still held in the caches.
C21_Witness ==
    /\ last.op \in CatalogOps
    /\ last.how \in TokenFailures
    /\ Truthy(token_cache.token)
    /\ catalog_cache.items # <<>>

IdAliases == {"parentProductId", "id", "productId", "code"}

NameAliases == {"parentProductName", "name", "title"}

HasId(p) == \E f \in IdAliases : p[f] \notin {None, ""}

HasName(p) == \E f \in NameAliases : p[f] # <<>>

\* sub occurs in s.
InfixOf(sub, s) == \E i \in 0..(Len(s) - Len(sub)) : SubSeq(s, i + 1, i + Len(sub)) = sub

PassesFilter(name) ==
    cfg.CATALOG_NAME_FILTER = <<>> \/ InfixOf(cfg.CATALOG_NAME_FILTER, Lower(name))

\* The positions of the upstream records that are to be kept.
KeptPositions(data) ==
    {i \in 1..Len(data) : HasId(data[i]) /\ HasName(data[i])
                            /\ PassesFilter(ProductName(data[i]))}

\* items are the kept records of data, in the order of data.
InUpstreamOrder(items, data) ==
    \E idx \in [1..Len(items) -> 1..Len(data)] :
        /\ \A j, k \in 1..Len(items) : j < k => idx[j] < idx[k]
        /\ {idx[j] : j \in 1..Len(items)} = KeptPositions(data)
        /\ \A j \in 1..Len(items) :
              /\ items[j].productId = ProductPid(data[idx[j]])
              /\ items[j].name = ProductName(data[idx[j]])

\* C22: after any sequence of refreshes every cached item has a non-empty
\* productId, a non-empty name and, with a name filter configured, a name
\* containing the filter case-insensitively; a 200 products answer never
\* fails the refresh whatever records lack an id or a name, and the items
\* kept are exactly the other records, in upstream order.
C22_CatalogNormalization ==
    /\ \A i \in 1..Len(catalog_cache.items) :
          /\ catalog_cache.items[i].productId \notin {None, ""}
          /\ catalog_cache.items[i].name # <<>>
          /\ PassesFilter(catalog_cache.items[i].name)
    /\ (last.op = "catalog" /\ last.upstream.kind = "http" /\ last.upstream.status = 200) =>
          /\ last.status = 200
          /\ last.body.items = catalog_cache.items
          /\ InUpstreamOrder(catalog_cache.items, last.upstream.data)

\* C22 witness: with a filter configured, a refresh drops a record without
\* an id and a record that fails the filter, and keeps another.
C22_Witness ==
    /\ cfg.CATALOG_NAME_FILTER # <<>>
    /\ last.op = "catalog"
    /\ last.upstream.status = 200
    /\ catalog_cache.items # <<>>
    /\ Len(catalog_cache.items) < Len(last.upstream.data)
    /\ \E i \in 1..Len(last.upstream.data) :
          /\ HasId(last.upstream.data[i]) /\ HasName(last.upstream.data[i])
          /\ ~PassesFilter(ProductName(last.upstream.data[i]))

\* C23: every GET /debug/oauth that passes the shared-secret check answers
\* 200 with a {status_code, text} report, whatever the token endpoint does
\* with the three styles; it sends the styles in the order json, body, basic,
\* each at most once, and leaves the token cache as it was.
C23_DebugOauthAlwaysReports ==
    [][(Handling /\ last'.op = "debug-oauth" /\ last'.status # 401) =>
        /\ last'.status = 200
        /\ ~last'.unhandled
        /\ Len(last'.sent) \in 1..3
        /\ \A i \in 1..Len(last'.sent) : last'.sent[i] = TokenReq(DebugOrder[i])
        /\ token_cache' = token_cache
    ]_vars

\* C24: a GET /product-availability request without preferredTime that
\* passes the shared-secret check and the validation is answered (200 or a
\* handled upstream failure), and a 200 carries the upstream data as
\* upstream sent it: no preferred or neighborSessions field and the sessions
\* in upstream order, whatever earlier requests asked for.
C24_AvailabilityNoLeak ==
    (/\ last.op = "product-availability"
     /\ last.status \notin {401, 422}
     /\ last.input.time = <<>>) =>
        /\ ~last.unhandled
        /\ last.status = 200 => last.body.data \in AvailData

====
